---- MODULE Spec2Model ----
(***************************************************************************)
(* Night-routine scheduler (src/main.py): generate_night_routine_hours     *)
(* followed by divide_night_routine_hours, as one sequential pipeline.     *)
(*                                                                         *)
(* Conventions of the model                                                *)
(*  - an hour-stamp "HH:00" is the integer HH in 0..23;                    *)
(*  - a share of patrol hours with two decimals is kept in hundredths      *)
(*    (2.64 hours is 264), so floor / ceil / % 1 are integer operations;   *)
(*  - sequences are 1-based: Python index i is position i + 1, and the     *)
(*    Python index -1 is the last position (see At / PyPos);               *)
(*  - a slot's "name" field always travels with its "id" field and is not  *)
(*    kept; the string "empty" is the value EMPTY.                         *)
(***************************************************************************)
EXTENDS Integers, Sequences, FiniteSets, TLC

VARIABLES
    PATROL_START_AND_END,  \* <<start hour, end hour>>                (l.17)
    platoon,               \* sequence of squads                       (l.101)
    squad_hours,           \* per squad share, in hundredths of hours  (l.207)
    largest_decimal,       \* <<python index, decimal key>>            (l.221)
    time_schedule,         \* per squad stove-watch / patrol schedule  (l.245)
    squad_number,          \* squad processed by the divide loop       (l.303)
    start_time,            \* function-local of the rest computation   (l.419)
    soldier,               \* soldier picked by the fill loop          (l.447)
    filled,                \* whether the loop at l.465 hit its break
    fault,                 \* exception that ended the run, or "none"
    pc                     \* position in the pipeline

vars == <<PATROL_START_AND_END, platoon, squad_hours, largest_decimal,
          time_schedule, squad_number, start_time, soldier, filled, fault, pc>>

-----------------------------------------------------------------------------
(* Bounds of the model and constants of the program *)

MinSquads == 1
MaxSquads == 4
MinSquadSize == 5
MaxSquadSize == 12
DriverRestHours == 6
HoursInDay == 24

EMPTY == -1
UNSET == -1
NONE == 0

-----------------------------------------------------------------------------
(* Generic helpers *)

RECURSIVE SumSeq(_)
SumSeq(s) == IF s = <<>> THEN 0 ELSE Head(s) + SumSeq(Tail(s))

Range(s) == {s[i] : i \in DOMAIN s}

\* position of Python index i in a list of length n (negative indices wrap)
PyPos(i, n) == IF i < 0 THEN n + i + 1 ELSE i + 1

At(s, i) == s[PyPos(i, Len(s))]

\* all orders a shuffle of 1..n can produce
Shuffles(n) == {p \in [1..n -> 1..n] : \A i, j \in 1..n : p[i] = p[j] => i = j}

\* variant of Samples: positions drawn with replacement
Samples_WithReplacement(m, k) == [1..k -> 1..m]

\* all results of sample(range(m), k): k distinct positions, in any order
Samples(m, k) == {p \in [1..k -> 1..m] : \A i, j \in 1..k : p[i] = p[j] => i = j}

\* variant of Floor100: the final shares are rounded up instead of down
Floor100_Up(v) == ((v + 99) \div 100) * 100

Floor100(v) == (v \div 100) * 100

\* variant of Ceil100: a whole hour is added instead of taking the ceiling
Ceil100_AddHour(v) == v + 100

Ceil100(v) == ((v + 99) \div 100) * 100

-----------------------------------------------------------------------------
(* get_night_routine_time *)

\* l.34-45: end - start; a negative difference keeps only its seconds part,
\* which is the difference modulo one day; truncated to whole hours
get_night_routine_time ==
    (PATROL_START_AND_END[2] - PATROL_START_AND_END[1]) % HoursInDay

-----------------------------------------------------------------------------
(* generate_platoon *)

Soldier(id, isDriver) ==
    [id |-> id, driver |-> IF isDriver THEN "yes" ELSE "no", time_on_duty |-> <<>>]

\* l.99-133: squads in file order, ids sequential from 0; sizes[k] soldiers in
\* squad k, of which the first drivers[k] are the squad's drivers
generate_platoon(sizes, drivers) ==
    [k \in 1..Len(sizes) |->
        [squad_number |-> k,
         squad_members |->
            [j \in 1..sizes[k] |->
                Soldier(SumSeq(SubSeq(sizes, 1, k - 1)) + j - 1, j <= drivers[k])]]]

Members(k) == platoon[k].squad_members
platoon_size == SumSeq([k \in 1..Len(platoon) |-> Len(Members(k))])

-----------------------------------------------------------------------------
(* generate_night_routine_hours: shares and the rounding loop *)

\* results of round(x, 2) on an exact tie x = 0.ab5 (only multiples of 1 / 40
\* can tie): the double nearest to n / N decides, e.g. 0.375 -> 0.38,
\* 0.225 -> 0.23, 0.275 -> 0.28 go up and 0.125, 0.175, 0.625 go down.
\* The set holds the ab for which the result is ab + 1.
TieRoundsUp == {2, 22, 27, 32, 37, 52, 67, 77, 87, 92}

\* l.210: round(n / N, 2), in hundredths
Round2(n, N) ==
    LET q == (100 * n) \div N
        r == (100 * n) % N
    IN  IF 2 * r > N THEN q + 1
        ELSE IF 2 * r < N THEN q
        ELSE IF q \in TieRoundsUp THEN q + 1 ELSE q

\* l.209-210: round(H * round(n / N, 2), 2), in hundredths
Share(H, n, N) == H * Round2(n, N)

FloorSum(hours) == SumSeq([k \in 1..Len(hours) |-> hours[k] \div 100])

RECURSIVE Pow2Mod100(_)
Pow2Mod100(p) == IF p = 0 THEN 1 ELSE (2 * Pow2Mod100(p - 1)) % 100

RECURSIVE Pow2(_)
Pow2(p) == IF p = 0 THEN 1 ELSE 2 * Pow2(p - 1)

\* number of fraction bits of the double that holds v / 100 (v >= 1):
\* 52 - e with 2^e <= v / 100 < 2^(e + 1)
RECURSIVE FractionBits(_, _)
FractionBits(v, p) ==
    IF p <= 52 /\ v >= 100 * Pow2(52 - p) THEN p
    ELSE IF p > 52 /\ v * Pow2(p - 52) >= 100 THEN p
    ELSE FractionBits(v, p + 1)

\* l.224: squad_hours[i] % 1 on doubles.  The double nearest to v / 100 is
\* off by a multiple of 2^-p; the remainder keeps that error, so two shares
\* with the same two decimals may compare unequal.  The key orders the
\* remainders as the doubles order: hundredths first, then the error, in
\* units of 2^-59 / 100.
Decimal(v) ==
    LET m == v % 100
        p == FractionBits(v, 48)
        t == (v * Pow2Mod100(p)) % 100
        err == IF t < 50 THEN 0 - t ELSE 100 - t
    IN  IF m = 0 THEN 0 ELSE m * 1000000 + err * Pow2(59 - p)

\* l.223-238: the scan for the largest decimal; every value largest_decimal
\* can hold after squads 0..i-1 were looked at.  len(platoon[k]) is the
\* number of keys of the squad dictionary.
SquadLen(i) == Cardinality(DOMAIN At(platoon, i))

RECURSIVE LargestDecimalScan(_, _)
LargestDecimalScan(hours, i) ==
    IF i = 0 THEN {<<-1, 0>>}
    ELSE LET decimal == Decimal(hours[i])
             step(ld) ==
                IF ld[2] < decimal THEN {<<i - 1, decimal>>}
                ELSE IF ld[2] = decimal THEN
                    IF SquadLen(ld[1]) < SquadLen(i - 1) THEN {<<i - 1, decimal>>}
                    ELSE IF SquadLen(ld[1]) > SquadLen(i - 1) THEN {<<i - 1, decimal>>}
                    ELSE {<<i - 1, decimal>>, <<ld[1], decimal>>}
                ELSE {ld}
         IN  UNION {step(ld) : ld \in LargestDecimalScan(hours, i - 1)}

\* l.214-240: one iteration of the rounding loop
RoundStep ==
    /\ pc = "alloc"
    /\ FloorSum(squad_hours) < get_night_routine_time
    /\ \E ld \in LargestDecimalScan(squad_hours, Len(squad_hours)) :
          /\ largest_decimal' = ld
          /\ squad_hours' = [squad_hours EXCEPT
                ![PyPos(ld[1], Len(squad_hours))] = Ceil100(@)]
    /\ UNCHANGED <<PATROL_START_AND_END, platoon, time_schedule, squad_number,
                   start_time, soldier, filled, fault, pc>>

\* l.214, l.242: the loop ends and every share is floored
FloorHours ==
    /\ pc = "alloc"
    /\ ~(FloorSum(squad_hours) < get_night_routine_time)
    /\ squad_hours' = [k \in 1..Len(squad_hours) |-> Floor100(squad_hours[k])]
    /\ pc' = "template"
    /\ UNCHANGED <<PATROL_START_AND_END, platoon, largest_decimal, time_schedule,
                   squad_number, start_time, soldier, filled, fault>>

-----------------------------------------------------------------------------
(* generate_night_routine_hours: the schedule templates *)

\* l.262-271: one slot per hour from the start; the loop appends before it
\* compares, so it stops the first time the advanced clock shows the end
StoveWatchLength ==
    IF PATROL_START_AND_END[2] = PATROL_START_AND_END[1]
        THEN HoursInDay
        ELSE (PATROL_START_AND_END[2] - PATROL_START_AND_END[1]) % HoursInDay

stove_watch_template ==
    [j \in 1..StoveWatchLength |->
        [time |-> (PATROL_START_AND_END[1] + j - 1) % HoursInDay, id |-> EMPTY]]

\* l.273-284: hours slots on the clock shared by all squads; `before` is the
\* number of hours the squads processed earlier have taken from that clock
patrol_template(hours, before) ==
    [j \in 1..hours |->
        [time |-> (PATROL_START_AND_END[1] + before + j - 1) % HoursInDay,
         first_id |-> EMPTY, second_id |-> EMPTY]]

\* hours of the squads that precede squad k in the processing order
HoursBefore(order, k) ==
    LET pos == CHOOSE j \in DOMAIN order : order[j] = k
    IN  SumSeq([j \in 1..(pos - 1) |-> squad_hours[order[j]] \div 100])

\* l.244-290: shuffle the squads, build both templates for each
Templates ==
    /\ pc = "template"
    /\ \E randomized_patrol_order \in Shuffles(Len(platoon)) :
          time_schedule' =
             [k \in 1..Len(platoon) |->
                [stove_watch_schedule |-> stove_watch_template,
                 patrol_schedule |->
                    patrol_template(squad_hours[k] \div 100,
                                    HoursBefore(randomized_patrol_order, k))]]
    /\ squad_number' = 1
    /\ pc' = "drivers"
    /\ UNCHANGED <<PATROL_START_AND_END, platoon, squad_hours, largest_decimal,
                   start_time, soldier, filled, fault>>

-----------------------------------------------------------------------------
(* divide_night_routine_hours: drivers *)

Stove(k) == time_schedule[k].stove_watch_schedule
Patrol(k) == time_schedule[k].patrol_schedule

\* the positions j, j + 1, ... at which wanted holds, in increasing order
RECURSIVE SelectPositions(_, _)
SelectPositions(wanted, j) ==
    IF j > Len(wanted) THEN <<>>
    ELSE (IF wanted[j] THEN <<j>> ELSE <<>>) \o SelectPositions(wanted, j + 1)

\* l.307-310: the squad's drivers, as positions in squad_members
drivers_in_squad(k) ==
    SelectPositions([j \in 1..Len(Members(k)) |-> Members(k)[j].driver = "yes"], 1)

\* l.338-340: the squad without its drivers, as positions in squad_members
squad_for_calculating(k) ==
    SelectPositions([j \in 1..Len(Members(k)) |-> Members(k)[j].driver # "yes"], 1)

\* variant of DriverCounter: the ceiling on both sides of the schedule
DriverCounter_CeilBoth(H, count, first_watch) ==
    (H - DriverRestHours + count - 1) \div count

\* l.314, l.328: ceil and floor of (H - 6) / number of drivers
DriverCounter(H, count, first_watch) ==
    IF first_watch THEN (H - DriverRestHours + count - 1) \div count
                   ELSE (H - DriverRestHours) \div count

\* l.329-334: the driver at position j takes the slots i, i + 1, ... of his
\* `counter` slots, forward from the first slot of the schedule or backward
\* from the last one; st = [stove, members]
RECURSIVE PlaceDriverFrom(_, _, _, _, _)
PlaceDriverFrom(st, j, first_watch, counter, i) ==
    IF i > counter THEN st
    ELSE LET p == IF first_watch THEN i ELSE Len(st.stove) - i + 1
         IN  PlaceDriverFrom(
                 [stove |-> [st.stove EXCEPT ![p].id = st.members[j].id],
                  members |-> [st.members EXCEPT ![j].time_on_duty =
                                  Append(@, st.stove[p].time)]],
                 j, first_watch, counter, i + 1)

PlaceDriver(st, j, first_watch, counter) ==
    PlaceDriverFrom(st, j, first_watch, counter, 1)

\* l.323-334: the drivers in shuffled order, alternating front and back
RECURSIVE PlaceDriversFrom(_, _, _, _)
PlaceDriversFrom(st, order, n, H) ==
    IF n > Len(order) THEN st
    ELSE LET first_watch == (n % 2 = 1)
         IN  PlaceDriversFrom(
                 PlaceDriver(st, order[n], first_watch,
                             DriverCounter(H, Len(order), first_watch)),
                 order, n + 1, H)

\* l.306-334
PlaceDrivers ==
    /\ pc = "drivers"
    /\ LET k == squad_number
           drivers == drivers_in_squad(k)
           H == get_night_routine_time
       IN  IF drivers # <<>> /\ H > DriverRestHours
           THEN \E shuffle \in Shuffles(Len(drivers)) :
                  LET st == PlaceDriversFrom(
                               [stove |-> Stove(k), members |-> Members(k)],
                               [n \in 1..Len(drivers) |-> drivers[shuffle[n]]], 1, H)
                  IN  /\ time_schedule' =
                            [time_schedule EXCEPT ![k].stove_watch_schedule = st.stove]
                      /\ platoon' = [platoon EXCEPT ![k].squad_members = st.members]
           ELSE UNCHANGED <<time_schedule, platoon>>
    /\ pc' = "pairs"
    /\ UNCHANGED <<PATROL_START_AND_END, squad_hours, largest_decimal, squad_number,
                   start_time, soldier, filled, fault>>

-----------------------------------------------------------------------------
(* divide_night_routine_hours: patrol pairs *)

\* l.345-355: hours per pair; P patrol slots, count pairs (count >= 1).
\* hours_per_pair = P / count, so hours_per_pair > 1 is P > count.
RECURSIVE PairHoursFrom(_, _, _)
PairHoursFrom(pair_hours, P, count) ==
    IF ~(Len(pair_hours) < count) THEN pair_hours
    ELSE LET next == IF Len(pair_hours) + 1 = count
                        THEN (P + count - 1) \div count
                        ELSE IF P > count THEN P \div count ELSE 1
             grown == Append(pair_hours, next)
         IN  IF SumSeq(grown) >= P THEN grown
             ELSE PairHoursFrom(grown, P, count)

PairHours(P, count) == PairHoursFrom(<<>>, P, count)

\* l.364-372: the pair <<a, b>> (positions in squad_members) walks `hours`
\* slots from hour_index on; st = [patrol, members, hour_index, fault].
\* hour_index is a Python index; addressing a slot past the end faults.
RECURSIVE WalkPair(_, _, _, _)
WalkPair(st, a, b, hours) ==
    IF hours = 0 \/ st.fault THEN st
    ELSE IF st.hour_index >= Len(st.patrol) THEN [st EXCEPT !.fault = TRUE]
    ELSE LET h == st.hour_index + 1
             time == st.patrol[h].time
             with_first == [st.members EXCEPT ![a].time_on_duty = Append(@, time)]
         IN  WalkPair(
                 [patrol |-> [st.patrol EXCEPT
                                 ![h].first_id = st.members[a].id,
                                 ![h].second_id = st.members[b].id],
                  members |-> [with_first EXCEPT ![b].time_on_duty = Append(@, time)],
                  hour_index |-> st.hour_index + 1,
                  fault |-> FALSE],
                 a, b, hours - 1)

\* l.359-373: the pairs in the order of patrol_soldiers_list
RECURSIVE WalkPairsFrom(_, _, _, _, _)
WalkPairsFrom(st, sfc, patrol_soldiers_list, pair_hours, pair_counter) ==
    IF pair_counter >= Len(pair_hours) \/ st.fault THEN st
    ELSE WalkPairsFrom(
             WalkPair(st,
                      sfc[patrol_soldiers_list[2 * pair_counter + 1]],
                      sfc[patrol_soldiers_list[2 * pair_counter + 2]],
                      pair_hours[pair_counter + 1]),
             sfc, patrol_soldiers_list, pair_hours, pair_counter + 1)

\* l.338-373
PairPatrols ==
    /\ pc = "pairs"
    /\ LET k == squad_number
           sfc == squad_for_calculating(k)
           patrol_pairs_count == Len(sfc) \div 2
           P == Len(Patrol(k))
       IN  IF patrol_pairs_count = 0
           THEN \* l.345: division by zero
                /\ fault' = "ZeroDivisionError"
                /\ pc' = "fault"
                /\ UNCHANGED <<time_schedule, platoon>>
           ELSE LET pair_hours == PairHours(P, patrol_pairs_count)
                IN  \E patrol_soldiers_list \in Samples(Len(sfc), 2 * Len(pair_hours)) :
                      LET st == WalkPairsFrom(
                                   [patrol |-> Patrol(k), members |-> Members(k),
                                    hour_index |-> 0, fault |-> FALSE],
                                   sfc, patrol_soldiers_list, pair_hours, 0)
                      IN  /\ time_schedule' =
                                [time_schedule EXCEPT ![k].patrol_schedule = st.patrol]
                          /\ platoon' = [platoon EXCEPT ![k].squad_members = st.members]
                          \* l.365: the walk addressed a slot past the end
                          /\ fault' = IF st.fault THEN "IndexError" ELSE "none"
                          /\ pc' = IF st.fault THEN "fault" ELSE "phase1"
    /\ UNCHANGED <<PATROL_START_AND_END, squad_hours, largest_decimal, squad_number,
                   start_time, soldier, filled>>

-----------------------------------------------------------------------------
(* divide_night_routine_hours: filling the stove watch *)

Max(S) == CHOOSE x \in S : \A y \in S : y <= x
Min(S) == CHOOSE x \in S : \A y \in S : x <= y

EmptySlots(stove) == {p \in 1..Len(stove) : stove[p].id = EMPTY}

\* l.379-384 and l.465-470: the slot is given to member j
TakeSlot(st, j, p) ==
    [stove |-> [st.stove EXCEPT ![p].id = st.members[j].id],
     members |-> [st.members EXCEPT ![j].time_on_duty = Append(@, st.stove[p].time)]]

\* l.377-384: every soldier without duty takes the first empty slot, if any
RECURSIVE Phase1From(_, _, _)
Phase1From(st, sfc, i) ==
    IF i > Len(sfc) THEN st
    ELSE LET j == sfc[i]
         IN  IF st.members[j].time_on_duty = <<>> /\ EmptySlots(st.stove) # {}
                 THEN Phase1From(TakeSlot(st, j, Min(EmptySlots(st.stove))), sfc, i + 1)
                 ELSE Phase1From(st, sfc, i + 1)

Phase1 ==
    /\ pc = "phase1"
    /\ LET k == squad_number
           st == Phase1From([stove |-> Stove(k), members |-> Members(k)],
                            squad_for_calculating(k), 1)
       IN  /\ time_schedule' = [time_schedule EXCEPT ![k].stove_watch_schedule = st.stove]
           /\ platoon' = [platoon EXCEPT ![k].squad_members = st.members]
    /\ pc' = "phase2"
    /\ UNCHANGED <<PATROL_START_AND_END, squad_hours, largest_decimal, squad_number,
                   start_time, soldier, filled, fault>>

\* l.404-414: the last duty time in the order the code sorts them: times whose
\* text starts with "0" (hours 00..09) come after all the others
LastDutyTime(duty) ==
    LET after_midnight == {t \in Range(duty) : t < 10}
        before_midnight == Range(duty) \ after_midnight
    IN  IF after_midnight # {} THEN Max(after_midnight) ELSE Max(before_midnight)

HoursBetween(from, to) == (to - from) % HoursInDay

\* l.415-431 for one soldier; st_time is the value start_time holds when the
\* soldier is reached.  time_point is never advanced, so every gap in the
\* loop is measured from the start of the window; start_time ends as the
\* hour after the last sorted duty time and is read after the loop.
ConsecutiveSleep(duty, st_time) ==
    LET inloop == {HoursBetween(PATROL_START_AND_END[1], t) : t \in Range(duty)}
        after == IF duty = <<>> THEN st_time ELSE (LastDutyTime(duty) + 1) % HoursInDay
        tail == HoursBetween(after, PATROL_START_AND_END[2])
    IN  [start_time |-> after,
         total_consecutive_sleep |-> Max(inloop \cup {0, tail})]

\* l.395-437: the scan over the squad; acc = [sleep_hours, cons_hours,
\* start_time, unbound], unbound when l.427 reads start_time before any
\* assignment to it
RECURSIVE ConsHoursFrom(_, _, _, _)
ConsHoursFrom(acc, members, sfc, i) ==
    IF i > Len(sfc) \/ acc.unbound THEN acc
    ELSE LET duty == members[sfc[i]].time_on_duty
             sleep == get_night_routine_time - Len(duty)
         IN  IF ~(acc.sleep_hours <= sleep) THEN ConsHoursFrom(acc, members, sfc, i + 1)
             ELSE IF duty = <<>> /\ acc.start_time = UNSET
                 THEN [acc EXCEPT !.unbound = TRUE]
             ELSE LET cs == ConsecutiveSleep(duty, acc.start_time)
                      kept == IF acc.sleep_hours < sleep THEN <<>> ELSE acc.cons_hours
                  IN  ConsHoursFrom(
                          [sleep_hours |-> sleep,
                           cons_hours |-> Append(kept,
                              [index |-> i - 1,
                               total_consecutive_sleep |-> cs.total_consecutive_sleep]),
                           start_time |-> cs.start_time,
                           unbound |-> FALSE],
                          members, sfc, i + 1)

ConsHours(k) ==
    ConsHoursFrom([sleep_hours |-> 0, cons_hours |-> <<>>,
                   start_time |-> start_time, unbound |-> FALSE],
                  Members(k), squad_for_calculating(k), 1)

\* l.449-462: the soldiers the iteration may pick, as indices into cons_hours.
\* with_largest_cons is built and never read; more than one candidate means
\* randint over all of cons_hours.
Picks(cons_hours) == 1..Len(cons_hours)

\* variant of FreeSlotsFor: the soldier's duty times are not looked at
FreeSlotsFor_AnyEmpty(stove, duty) == EmptySlots(stove)

\* l.465-470: slots the picked soldier may take
FreeSlotsFor(stove, duty) ==
    {p \in EmptySlots(stove) : stove[p].time \notin Range(duty)}

\* l.394-470: one iteration of the fill loop of the current squad
Phase2 ==
    /\ pc = "phase2"
    /\ LET k == squad_number
           sfc == squad_for_calculating(k)
           scan == ConsHours(k)
       IN  IF scan.unbound
           THEN \* l.427: start_time read before assignment
                /\ fault' = "UnboundLocalError"
                /\ pc' = "fault"
                /\ UNCHANGED <<time_schedule, platoon, squad_number, start_time,
                               soldier, filled>>
           ELSE IF EmptySlots(Stove(k)) = {}
           THEN \* l.444: the squad is finished, on to the next one (l.303)
                /\ start_time' = scan.start_time
                /\ soldier' = NONE
                /\ filled' = FALSE
                /\ IF k < Len(platoon)
                      THEN squad_number' = k + 1 /\ pc' = "drivers"
                      ELSE squad_number' = k /\ pc' = "done"
                /\ UNCHANGED <<time_schedule, platoon, fault>>
           ELSE IF scan.cons_hours = <<>>
           THEN \* l.462: randint(0, -1)
                /\ start_time' = scan.start_time
                /\ fault' = "ValueError"
                /\ pc' = "fault"
                /\ UNCHANGED <<time_schedule, platoon, squad_number, soldier, filled>>
           ELSE \E c \in Picks(scan.cons_hours) :
                  LET j == sfc[scan.cons_hours[c].index + 1]
                      free == FreeSlotsFor(Stove(k), Members(k)[j].time_on_duty)
                      st == IF free = {}
                               THEN [stove |-> Stove(k), members |-> Members(k)]
                               ELSE TakeSlot([stove |-> Stove(k), members |-> Members(k)],
                                             j, Min(free))
                  IN  /\ start_time' = scan.start_time
                      /\ soldier' = j
                      /\ filled' = (free # {})
                      /\ time_schedule' =
                            [time_schedule EXCEPT ![k].stove_watch_schedule = st.stove]
                      /\ platoon' = [platoon EXCEPT ![k].squad_members = st.members]
                      /\ UNCHANGED <<squad_number, fault, pc>>
    /\ UNCHANGED <<PATROL_START_AND_END, squad_hours, largest_decimal>>

-----------------------------------------------------------------------------
(* Initial states *)

\* state at the entry of generate_night_routine_hours (l.202-210) for the
\* window <<start, end>> and the roster sizes / drivers
Start(window, sizes, drivers) ==
    /\ PATROL_START_AND_END = window
    /\ platoon = generate_platoon(sizes, drivers)
    /\ squad_hours =
          [k \in 1..Len(sizes) |->
              Share((window[2] - window[1]) % HoursInDay, sizes[k], SumSeq(sizes))]
    /\ largest_decimal = <<-1, 0>>
    /\ time_schedule = [k \in 1..Len(sizes) |->
                          [stove_watch_schedule |-> <<>>, patrol_schedule |-> <<>>]]
    /\ squad_number = 0
    /\ start_time = UNSET
    /\ soldier = NONE
    /\ filled = FALSE
    /\ fault = "none"
    /\ pc = "alloc"

ValidSizes ==
    UNION {[1..k -> MinSquadSize..MaxSquadSize] : k \in MinSquads..MaxSquads}

\* the two drivers a valid platoon needs, placed in the first squad
TwoDrivers(sizes) == [k \in 1..Len(sizes) |-> IF k = 1 THEN 2 ELSE 0]

\* the hour allocator alone, on every valid roster and every window length
InitAlloc ==
    \E end \in 0..(HoursInDay - 1), sizes \in ValidSizes :
        Start(<<0, end>>, sizes, TwoDrivers(sizes))

NextAlloc == RoundStep \/ FloorHours

SpecAlloc == InitAlloc /\ [][NextAlloc]_vars

\* the whole pipeline on small rosters: up to MaxPlatoon squads and MaxSoldiers
\* soldiers, each squad with up to MaxDrivers drivers and up to MaxOthers
\* other soldiers, on windows that start at one of WindowStarts and last up
\* to MaxWindow hours (a window of 0 hours has end = start)
MaxPlatoon == 2
MaxSoldiers == 5
MaxDrivers == 3
MaxOthers == 3
MaxWindow == 8
WindowStarts == {22}

Rosters ==
    {roster \in UNION {[1..k -> {c \in (0..MaxDrivers) \X (0..MaxOthers) :
                                    c[1] + c[2] >= 1}] : k \in 1..MaxPlatoon} :
        SumSeq([k \in 1..Len(roster) |-> roster[k][1] + roster[k][2]]) <= MaxSoldiers}

Init ==
    \E start \in WindowStarts, length \in 0..MaxWindow, roster \in Rosters :
        Start(<<start, (start + length) % HoursInDay>>,
              [k \in 1..Len(roster) |-> roster[k][1] + roster[k][2]],
              [k \in 1..Len(roster) |-> roster[k][1]])

Next ==
    \/ RoundStep
    \/ FloorHours
    \/ Templates
    \/ PlaceDrivers
    \/ PairPatrols
    \/ Phase1
    \/ Phase2

Spec == Init /\ [][Next]_vars

\* allocation and templates on every two-squad roster of valid sizes, for the
\* windows that start at one of ScenarioStarts
ScenarioStarts == {6, 22}

InitTemplates ==
    \E start \in ScenarioStarts, end \in 0..(HoursInDay - 1),
       sizes \in [1..2 -> MinSquadSize..MaxSquadSize] :
        Start(<<start, end>>, sizes, TwoDrivers(sizes))

NextTemplates == RoundStep \/ FloorHours \/ Templates

SpecTemplates == InitTemplates /\ [][NextTemplates]_vars

\* the whole pipeline on valid one-squad platoons: MinSquadSize up to
\* MaxOneSquad soldiers, at least ValidDrivers of them drivers.  With one
\* squad the share is H itself and the rounding loop body never runs.
MaxOneSquad == 6
ValidDrivers == 2

InitSquad ==
    \E start \in WindowStarts, length \in 0..MaxWindow,
       size \in MinSquadSize..MaxOneSquad :
        \E drivers \in ValidDrivers..size :
            Start(<<start, (start + length) % HoursInDay>>, <<size>>, <<drivers>>)

NextSquad ==
    \/ FloorHours
    \/ Templates
    \/ PlaceDrivers
    \/ PairPatrols
    \/ Phase1
    \/ Phase2

SpecSquad == InitSquad /\ [][NextSquad]_vars

\* the driver step alone on one squad of MaxSquadSize soldiers with 1 up to
\* MaxDriverTeam drivers, for every window length of the clock
MaxDriverTeam == 4

InitDrivers ==
    \E start \in ScenarioStarts, end \in 0..(HoursInDay - 1),
       drivers \in 1..MaxDriverTeam :
        Start(<<start, end>>, <<MaxSquadSize>>, <<drivers>>)

NextDrivers == FloorHours \/ Templates \/ PlaceDrivers

SpecDrivers == InitDrivers /\ [][NextDrivers]_vars

\* the whole pipeline on valid platoons whose squads form two or three patrol
\* pairs: two squads of MinSquadSize soldiers with one driver each on windows
\* of 1 up to MaxShortWindow hours (a squad may be allocated no patrol hour),
\* and one squad of three pairs beside its ValidDrivers drivers on the
\* windows of PairWindows hours
MaxShortWindow == 2
PairWindows == {5}

InitPairs ==
    \E start \in WindowStarts :
        \/ \E length \in 1..MaxShortWindow :
              Start(<<start, (start + length) % HoursInDay>>,
                    <<MinSquadSize, MinSquadSize>>, <<1, 1>>)
        \/ \E length \in PairWindows :
              Start(<<start, (start + length) % HoursInDay>>,
                    <<ValidDrivers + 6>>, <<ValidDrivers>>)

SpecPairs == InitPairs /\ [][Next]_vars

-----------------------------------------------------------------------------
(* Properties of the hour allocator *)

H == get_night_routine_time
Allocated(k) == squad_hours[k] \div 100
SquadSize(k) == Len(Members(k))

\* C1: the rounding loop terminates and the allocations sum to the window
\* length H.  While the loop runs the floor sum is below H and every squad
\* the scan can pick has a non-zero decimal, so each iteration raises the
\* floor sum by one (H - floor sum is a variant); once the loop has ended
\* every share is a whole number of hours and the shares sum to exactly H,
\* whichever tie-break choices were taken.
C1_AllocationSumsToWindow ==
    /\ FloorSum(squad_hours) <= H
    /\ (pc = "alloc" /\ FloorSum(squad_hours) < H) =>
          \A ld \in LargestDecimalScan(squad_hours, Len(squad_hours)) : ld[2] > 0
    /\ pc # "alloc" =>
          /\ \A k \in 1..Len(squad_hours) : squad_hours[k] % 100 = 0
          /\ SumSeq([k \in 1..Len(squad_hours) |-> Allocated(k)]) = H

\* C1 witness: four squads, H >= 1, the loop rounded a squad up and ended
C1_Witness ==
    /\ pc = "template"
    /\ Len(platoon) = 4
    /\ H >= 1
    /\ largest_decimal # <<-1, 0>>
    /\ \E k \in 1..4 : Allocated(k) * 100 > Share(H, SquadSize(k), platoon_size)

\* the raw share H * (n / N) rounded to 2 decimals, in hundredths; on an
\* exact tie both neighbours are candidates
RawShares(k) ==
    LET q == (100 * H * SquadSize(k)) \div platoon_size
        r == (100 * H * SquadSize(k)) % platoon_size
    IN  IF 2 * r > platoon_size THEN {q + 1}
        ELSE IF 2 * r < platoon_size THEN {q}
        ELSE {q, q + 1}

\* C8: each final allocation is the floor or the ceiling of the squad's raw
\* share H * (n / N) rounded to 2 decimals: a whole raw share is allocated
\* exactly, and no allocation exceeds the raw share by one hour or more.
C8_AllocationIsFloorOrCeil ==
    pc # "alloc" =>
        \A k \in 1..Len(platoon) : \A raw \in RawShares(k) :
            /\ \/ Allocated(k) = raw \div 100
               \/ Allocated(k) = (raw + 99) \div 100
            /\ raw % 100 = 0 => Allocated(k) = raw \div 100
            /\ 100 * Allocated(k) - raw < 100

\* C8 witness: after the loop one squad with a fractional raw share holds
\* the ceiling and another one the floor
C8_Witness ==
    /\ pc = "template"
    /\ \E k1, k2 \in 1..Len(platoon) :
          \E r1 \in RawShares(k1), r2 \in RawShares(k2) :
             /\ r1 % 100 # 0 /\ Allocated(k1) = (r1 \div 100) + 1
             /\ r2 % 100 # 0 /\ Allocated(k2) = r2 \div 100

\* squads whose share has the largest two-decimal remainder
LargestRemainderSquads ==
    {k \in 1..Len(squad_hours) :
        \A j \in 1..Len(squad_hours) : squad_hours[j] % 100 <= squad_hours[k] % 100}

\* C9: in each iteration of the rounding loop the squad rounded up has the
\* largest fractional remainder, and among the squads tied on that remainder
\* it has the largest member count (a random choice only between tied squads
\* of equal member count).
C9_TieGoesToLargerSquad ==
    [][(pc = "alloc" /\ squad_hours' # squad_hours) =>
          LET chosen == PyPos(largest_decimal'[1], Len(squad_hours))
          IN  /\ chosen \in LargestRemainderSquads
              /\ \A k \in LargestRemainderSquads : SquadSize(k) <= SquadSize(chosen)]_vars

\* C7: for a window whose start and end clock times are equal and squads of
\* 5 and 7 members, H is 24, the allocations are 10 and 14, and their sum
\* equals the number of stove-watch slots built per squad.
C7_EqualClockTimesIsFullDay ==
    (/\ pc = "drivers"
     /\ PATROL_START_AND_END[1] = PATROL_START_AND_END[2]
     /\ Len(platoon) = 2 /\ SquadSize(1) = 5 /\ SquadSize(2) = 7) =>
        /\ H = 24
        /\ Len(Patrol(1)) = 10
        /\ Len(Patrol(2)) = 14
        /\ \A k \in 1..2 : Len(Stove(k)) = Len(Patrol(1)) + Len(Patrol(2))

-----------------------------------------------------------------------------
(* Properties of the pipeline *)

\* the driver step of squad k is over
Placed(k) == squad_number > k \/ (squad_number = k /\ pc # "drivers")

\* the fill loop of squad k ended through its break
Finished(k) == squad_number > k \/ (squad_number = k /\ pc = "done")

DriverIds(k) == {Members(k)[j].id : j \in Range(drivers_in_squad(k))}
OtherIds(k) == {Members(k)[j].id : j \in Range(squad_for_calculating(k))}

\* C3: for a squad with at least one driver and H > 6, once the drivers are
\* placed the stove-watch slots that hold no driver form one contiguous block
\* of at least 6 slots, and each driver's duty hours are one consecutive run
\* from the first slot or from the last slot, which leaves the driver at
\* least 6 consecutive hours of rest.
C3_DriversKeepSixHoursRest ==
    \A k \in 1..Len(platoon) :
        (Placed(k) /\ drivers_in_squad(k) # <<>> /\ H > DriverRestHours) =>
            LET stove == Stove(k)
                L == Len(stove)
                untouched == {p \in 1..L : stove[p].id \notin DriverIds(k)}
            IN  /\ \E a, b \in 1..L : untouched = a..b /\ b - a + 1 >= 6
                /\ \A j \in Range(drivers_in_squad(k)) :
                      LET duty == Members(k)[j].time_on_duty
                          c == Len(duty)
                      IN  /\ \/ duty = [i \in 1..c |-> stove[i].time]
                             \/ duty = [i \in 1..c |-> stove[L - i + 1].time]
                          /\ L - c >= 6

\* C3 witness: a squad with two or more drivers whose first and last slot
\* both went to a driver
C3_Witness ==
    \E k \in 1..Len(platoon) :
        /\ Placed(k) /\ H > DriverRestHours
        /\ Len(drivers_in_squad(k)) >= 2
        /\ Stove(k)[1].id \in DriverIds(k)
        /\ Stove(k)[Len(Stove(k))].id \in DriverIds(k)

NoDuplicates(duty) == \A i, j \in DOMAIN duty : duty[i] = duty[j] => i = j

\* C4: no soldier's time_on_duty ever holds the same hour-stamp twice, and
\* once the fill loop of a squad has completed none of its stove-watch slots
\* is "empty".
C4_FilledAndNoDuplicateDuty ==
    /\ \A k \in 1..Len(platoon) : \A j \in 1..Len(Members(k)) :
          NoDuplicates(Members(k)[j].time_on_duty)
    /\ \A k \in 1..Len(platoon) : Finished(k) => EmptySlots(Stove(k)) = {}

\* C4 witness: the fill loop of a squad has completed and one of its soldiers
\* has both walked a patrol and taken a stove-watch slot
C4_Witness ==
    \E k \in 1..Len(platoon) :
        /\ Finished(k)
        /\ \E p \in DOMAIN Stove(k), h \in DOMAIN Patrol(k) :
              Stove(k)[p].id = Patrol(k)[h].first_id

PatrolFilled(slot) == slot.first_id # EMPTY \/ slot.second_id # EMPTY
PatrolSlots == {kh \in (1..Len(platoon)) \X (1..HoursInDay) : kh[2] <= Len(Patrol(kh[1]))}
PatrolAt(kh) == Patrol(kh[1])[kh[2]]

\* C5: a filled patrol slot names two distinct soldiers, both members of the
\* slot's own squad that are not drivers, and no soldier is named in two
\* patrol slots of the platoon that carry the same hour-stamp.
C5_PatrolPairsAreSound ==
    /\ \A kh \in PatrolSlots :
          PatrolFilled(PatrolAt(kh)) =>
             /\ PatrolAt(kh).first_id # PatrolAt(kh).second_id
             /\ PatrolAt(kh).first_id \in OtherIds(kh[1])
             /\ PatrolAt(kh).second_id \in OtherIds(kh[1])
    /\ \A s1, s2 \in PatrolSlots :
          (s1 # s2 /\ PatrolAt(s1).time = PatrolAt(s2).time
              /\ PatrolFilled(PatrolAt(s1)) /\ PatrolFilled(PatrolAt(s2))) =>
             {PatrolAt(s1).first_id, PatrolAt(s1).second_id}
                \cap {PatrolAt(s2).first_id, PatrolAt(s2).second_id} = {}

\* C5 witness: both squads of a platoon have a filled patrol slot
C5_Witness ==
    /\ Len(platoon) = 2
    /\ \A k \in 1..2 : \E h \in DOMAIN Patrol(k) : PatrolFilled(Patrol(k)[h])

\* C2: the fill loop never repeats an iteration with unchanged state: when
\* the soldier picked by an iteration has no empty stove-watch slot outside
\* his time_on_duty, the run ends with a fatal error.
C2_FillDeadlockIsFatal ==
    (soldier # NONE /\ ~filled) => pc = "fault"

\* C6: a squad with fewer than two soldiers that are not drivers is processed
\* without a fault, and all its patrol slots stay "empty".
C6_NoPairsStillCompletes ==
    \A k \in 1..Len(platoon) :
        Len(squad_for_calculating(k)) < 2 =>
            /\ ~(pc = "fault" /\ squad_number = k)
            /\ Finished(k) => \A h \in DOMAIN Patrol(k) : ~PatrolFilled(Patrol(k)[h])

\* longest run of consecutive hours of the window that are not in duty
LongestRest(duty) ==
    LET L == StoveWatchLength
        time(i) == (PATROL_START_AND_END[1] + i - 1) % HoursInDay
        runs == {x \in (1..L) \X (1..L) :
                    /\ x[1] <= x[2]
                    /\ \A i \in x[1]..x[2] : time(i) \notin Range(duty)}
    IN  Max({0} \cup {x[2] - x[1] + 1 : x \in runs})

\* C10: an iteration of the fill loop that assigns a slot picks a soldier
\* with the most sleep hours (H minus the number of duty times) among the
\* squad's soldiers that are not drivers, and among those with that maximum
\* one with the largest consecutive-rest value.  The rest value is read
\* both ways: as the total_consecutive_sleep the code computes, and as the
\* longest run of consecutive window hours without duty; the pick has to be
\* largest under one of the two.
C10_PickMaxSleepThenMaxRest ==
    [][(pc = "phase2" /\ filled' /\ time_schedule' # time_schedule) =>
          LET k == squad_number
              sfc == squad_for_calculating(k)
              cons_hours == ConsHours(k).cons_hours
              duty(j) == Members(k)[j].time_on_duty
              sleep(j) == H - Len(duty(j))
              tied == {sfc[cons_hours[c].index + 1] : c \in 1..Len(cons_hours)}
          IN  /\ \A j \in Range(sfc) : sleep(j) <= sleep(soldier')
              /\ \/ \A c, d \in 1..Len(cons_hours) :
                       sfc[cons_hours[c].index + 1] = soldier' =>
                          cons_hours[d].total_consecutive_sleep
                             <= cons_hours[c].total_consecutive_sleep
                 \/ \A j \in tied : LongestRest(duty(j)) <= LongestRest(duty(soldier'))]_vars


-----------------------------------------------------------------------------
(* Properties of the patrol pairing *)

patrol_pairs_count(k) == Len(squad_for_calculating(k)) \div 2

\* C11: for a squad with at least one pair and any number P >= 0 of patrol
\* slots the hours of the pairs sum to at most P, so the walk over the patrol
\* slots never addresses a slot past the end of the schedule.
C11_PairHoursWithinSlots ==
    /\ \A k \in 1..Len(platoon) :
          (pc = "pairs" /\ squad_number = k /\ patrol_pairs_count(k) >= 1) =>
              SumSeq(PairHours(Len(Patrol(k)), patrol_pairs_count(k))) <= Len(Patrol(k))
    /\ fault # "IndexError"



\* slots of squad k that name the soldier `id`, as the set of their times
SlotTimesOf(k, id) ==
    {Stove(k)[p].time : p \in {q \in DOMAIN Stove(k) : Stove(k)[q].id = id}}
        \cup {Patrol(k)[h].time :
                 h \in {g \in DOMAIN Patrol(k) :
                           id \in {Patrol(k)[g].first_id, Patrol(k)[g].second_id}}}

\* C12: slot assignments and duty records agree: every hour-stamp in a
\* soldier's time_on_duty belongs to a stove-watch or patrol slot of the
\* soldier's own squad that names the soldier, and every slot that names a
\* soldier has its time in that soldier's time_on_duty (so no step overwrites
\* a slot that was assigned to another soldier).
C12_SlotsAgreeWithDuty ==
    \A k \in 1..Len(platoon) : \A j \in 1..Len(Members(k)) :
        Range(Members(k)[j].time_on_duty) = SlotTimesOf(k, Members(k)[j].id)



\* C13: when the fill loop of a squad with at least one pair has completed,
\* every patrol slot of the squad is filled: the hours of the pairs sum to
\* exactly P, also when P is not a multiple of the number of pairs.
C13_AllPatrolSlotsFilled ==
    \A k \in 1..Len(platoon) :
        (Finished(k) /\ patrol_pairs_count(k) >= 1) =>
            /\ \A h \in DOMAIN Patrol(k) : PatrolFilled(Patrol(k)[h])
            /\ SumSeq(PairHours(Len(Patrol(k)), patrol_pairs_count(k))) = Len(Patrol(k))


====
